---- MODULE Spec2Model ----
(***************************************************************************)
(* Model of smartrace_relay.py: the SmartRace data handler (port 9091),    *)
(* the VSC timer monitor thread, the pulse threads and the web handler's   *)
(* /test1, /test2 and /set-pulse endpoints.                                *)
(*                                                                         *)
(* Threads.  The SmartRace data server is an http.server.HTTPServer: it    *)
(* serves one request at a time on one thread, so there is one position    *)
(* (h) for SmartRaceDataHandler.do_POST and a backlog of connections that  *)
(* wait for it.  monitor_vsc_timer runs on its own thread (m).  Every      *)
(* pulse_relay_threaded call starts a new thread (pulses).  A step of the  *)
(* model is one read or one write of a module-level global, so that every  *)
(* interleaving of the threads on the globals is a behaviour.              *)
(*                                                                         *)
(* Time.  now is time.time() in whole seconds.  time.sleep(relay1_delay)   *)
(* returns no earlier than its delay; the sub-second sleeps (the pulse's   *)
(* time.sleep(pulse_duration), the monitor's time.sleep(0.1)) return at    *)
(* some later step.  pulse_duration is held in tenths of a second,         *)
(* relay1_delay and durations in seconds.  time.time() is only compared    *)
(* with values computed from it (the end of the delay, vsc_end_time), so   *)
(* behaviours that differ by the time spent with no timer pending are the  *)
(* same up to a shift of the clock: the clock advances while the handler   *)
(* is in its delay or the deadline lies ahead.                             *)
(*                                                                         *)
(* Specifications.  Spec: all threads and the web requests, events of the  *)
(* usual kind.  FairSpec: the threads under fair scheduling, no web        *)
(* request.  RaceSpec: handler and monitor alone, three events.            *)
(* InputSpec: handler and monitor, one event of the usual kind and one     *)
(* request body of any shape (malformed, type under either key or none,    *)
(* duration at either place, absent or no number).  CfgSpec: /set-pulse    *)
(* requests and restarts of the program (load_config).  MonitorSpec:       *)
(* handler and monitor under fair scheduling, three start or withdraw      *)
(* events.  SuspendSpec: the threads with only the clock and the monitor   *)
(* scheduled fairly, relay1_delay = 2.  LogSpec: the                       *)
(* handler alone on a long run of events, with the append of line 309 and  *)
(* the trim of lines 310-311 as separate steps; in the other               *)
(* specifications the log stays below its capacity, the trim does nothing  *)
(* and no step of the model reads the log, so they take both at once.      *)
(* DriverSpec: test pulses on a driver whose GPIO.output calls can raise;  *)
(* a pulse thread that returned False stays in pulses as a record of its   *)
(* outcome (pc "False105" or "False116", after the line that raised).      *)
(***************************************************************************)
EXTENDS Integers, Sequences, FiniteSets, Bags, TLC

\* ---- bounds of the model ----
MaxTime == 7
MaxEvents == 2
MaxWeb == 1
RaceEvents == 3
CfgRequests == 2
LogEvents == 102
DriverTests == 3

\* ---- program constants ----
RELAY1_PIN == 18
RELAY2_PIN == 23
Pins == {RELAY1_PIN, RELAY2_PIN}

\* Python's None, for vsc_end_time and last_smartrace_event
None == -1

\* last_smartrace_event = None; CONFIG_FILE does not exist
NoEvent == [type |-> "None"]
NoFile == [exists |-> FALSE]
\* no /set-pulse request yet
NoForm == [new_duration |-> 0, new_delay |-> 0, status |-> 0]
\* lines 972 and 974: 0.1 <= new_duration <= 5 (tenths of a second),
\* 0 <= new_delay <= 30
MinPulseDuration == 1
MaxPulseDuration == 50
MinRelay1Delay == 0
MaxRelay1Delay == 30
\* line 979: self.send_response(302)
RedirectStatus == 302
\* len(smartrace_events_log) > 100
LogCapacity == 100

\* pulse_duration = 0.5 (tenths of a second), relay1_delay = 5.0 (seconds)
DefaultPulseDuration == 5
DefaultRelay1Delay == 5
\* vsc_data.get('duration', 60)
DefaultDuration == 60

\* event_type in [...] at do_POST, the VSC-start and the VSC-withdrawn lists
StartAliases == {"race.vsc_deployed", "vscDeployed", "vsc_deployed", "vsc_started", "VSC_DEPLOYED"}
WithdrawAliases == {"race.vsc_retracted", "vsc_Withdrawn", "vsc_withdrawn", "vscEnded", "vsc_ended", "VSC_WITHDRAWN"}

\* ---- inputs ----
\* a payload without a duration field
NoDuration == -1
\* a duration that is no number (a JSON string or null)
BadDuration == -2
\* event types and durations of the payloads that arrive
EventTypes == {"vsc_deployed", "vsc_withdrawn", "foo"}
Durations == {NoDuration, 1}

\* The JSON value at data['event']['data'] or at data['data']: the key is
\* absent, or it holds {}, an object without 'duration', or an object with
\* 'duration': v
Absent == [k |-> "absent", v |-> 0]
EmptyObj == [k |-> "empty", v |-> 0]
ObjNoDur == [k |-> "nodur", v |-> 0]
WithDuration(v) == [k |-> "dur", v |-> v]

\* the request body: json is FALSE when json.loads cannot parse it
Payload(event_type, type, edata, data) ==
    [json |-> TRUE, event_type |-> event_type, type |-> type, edata |-> edata, data |-> data]
Malformed == [json |-> FALSE, event_type |-> "", type |-> "", edata |-> Absent, data |-> Absent]

\* every shape of the two places a duration can be in, and every body:
\* the type under 'event_type', under 'type' or under neither
Shapes == {Absent, EmptyObj, ObjNoDur, WithDuration(2), WithDuration(BadDuration)}
AllPayloads ==
    {Malformed} \cup
    { Payload(et, t, edata, data) :
        et \in {"", "vsc_deployed"}, t \in {"", "vsc_withdrawn", "foo"},
        edata \in Shapes, data \in Shapes }

\* the payloads SmartRace sends: 'event_type' and, for a start, 'data'
CorePayloads ==
    { Payload(td[1], "", Absent, IF td[2] = NoDuration THEN Absent ELSE WithDuration(td[2])) :
        td \in {x \in EventTypes \X Durations : x[2] = NoDuration \/ x[1] \in StartAliases} }
\* the form values of /set-pulse: pulse_duration in tenths, relay1_delay in seconds
FormPulse == {5, 100}
FormDelay == {0, 31}

VARIABLES
    now,                    \* time.time()
    GPIO_AVAILABLE,
    gpio_out,               \* level of each pin, as GPIO.output left it
    relay1_state, relay2_state,
    vsc_active, vsc_end_time,
    last_smartrace_event, smartrace_events_log,
    pulse_duration, relay1_delay,
    config_file,            \* content of CONFIG_FILE
    form,                   \* the last /set-pulse form and the response to it
    backlog,                \* requests to the data port not yet handled
    h,                      \* the data server's thread, in do_POST
    m,                      \* the monitor_vsc_timer thread
    pulses,                 \* bag of running pulse_relay threads
    nEvents, nWeb,          \* requests still to come (bounded)
    window,                 \* history: which event's window is open / owns the deadline
    endPulses,              \* history: end pulses fired on account of each window
    withdrawn               \* history: windows a withdraw event has fired for

vars == <<now, GPIO_AVAILABLE, gpio_out, relay1_state, relay2_state, vsc_active,
          vsc_end_time, last_smartrace_event, smartrace_events_log, pulse_duration,
          relay1_delay, config_file, form, backlog, h, m, pulses, nEvents, nWeb,
          window, endPulses, withdrawn>>

gpioVars == <<GPIO_AVAILABLE, gpio_out, relay1_state, relay2_state, pulses>>
vscVars == <<vsc_active, vsc_end_time>>
logVars == <<last_smartrace_event, smartrace_events_log>>
cfgVars == <<pulse_duration, relay1_delay, config_file, form>>
histVars == <<window, endPulses, withdrawn>>

EventIds == 1..(MaxEvents + RaceEvents)

\* ---- pulse_relay_threaded ----
\* a new thread at the top of pulse_relay for the pin
pulse_relay_threaded(relay_pin) ==
    pulses (+) SetToBag({[pin |-> relay_pin, pc |-> "l102"]})

MovePulse(p, pc) ==
    (pulses (-) SetToBag({p})) (+) SetToBag({[pin |-> p.pin, pc |-> pc]})

\* ---- event classification, do_POST ----
IsStart(event_type) == event_type \in StartAliases
IsWithdraw(event_type) == event_type \in WithdrawAliases

\* lines 297-301: event_type = data.get('event_type', ''), and
\* data.get('type', '') when that is empty
EventTypeOf(post) == IF post.event_type # "" THEN post.event_type ELSE post.type

\* lines 318-320: vsc_data = data.get('event', {}).get('data', {}), and
\* data.get('data', {}) when that is empty
VscDataOf(post) ==
    IF post.edata.k \in {"absent", "empty"}
      THEN (IF post.data.k = "absent" THEN EmptyObj ELSE post.data)
      ELSE post.edata

\* line 322: duration = vsc_data.get('duration', 60)
DurationOf(post) ==
    IF VscDataOf(post).k = "dur" THEN VscDataOf(post).v ELSE DefaultDuration

\* the handler thread between requests; resp is the status of the last
\* response it sent (0: none yet)
HIdle == [pc |-> "idle", resp |-> 0]
\* the monitor thread at the top of its loop, no iteration has raised
MIdle == [pc |-> "l143", err |-> FALSE]
Responded(status) == [pc |-> "idle", resp |-> status]

Init ==
    /\ now = 0
    /\ GPIO_AVAILABLE \in BOOLEAN
    /\ gpio_out = [p \in Pins |-> FALSE]
    /\ relay1_state = FALSE
    /\ relay2_state = FALSE
    /\ vsc_active = FALSE
    /\ vsc_end_time = None
    /\ last_smartrace_event = NoEvent
    /\ smartrace_events_log = <<>>
    /\ pulse_duration = DefaultPulseDuration
    /\ relay1_delay = DefaultRelay1Delay
    /\ config_file = NoFile
    /\ form = NoForm
    /\ backlog = <<>>
    /\ h = HIdle
    /\ m = MIdle
    /\ pulses = EmptyBag
    /\ nEvents = MaxEvents
    /\ nWeb = MaxWeb
    /\ window = [open |-> 0, deadline |-> 0]
    /\ endPulses = [e \in EventIds |-> 0]
    /\ withdrawn = {}

\* ---- time ----
TimerPending ==
    \/ h.pc = "l329" /\ now < h.wake
    \/ vsc_end_time # None /\ now < vsc_end_time

Tick ==
    /\ now < MaxTime
    /\ TimerPending
    /\ now' = now + 1
    /\ UNCHANGED <<gpioVars, vscVars, logVars, cfgVars, backlog, h, m, nEvents, nWeb, histVars>>

\* ---- a request reaches the data port ----
Post(payloads) ==
    /\ nEvents > 0
    /\ \E post \in payloads :
          backlog' = Append(backlog, [id |-> nEvents, arr |-> now, post |-> post])
    /\ nEvents' = nEvents - 1
    /\ UNCHANGED <<now, gpioVars, vscVars, logVars, cfgVars, h, m, nWeb, histVars>>

Arrive == Post(CorePayloads)

\* ---- SmartRaceDataHandler.do_POST ----
\* lines 303-307: the record of an event
EventRecord(data) == [type |-> EventTypeOf(data), data |-> data]

\* lines 309-311: the log with the record appended, the oldest record
\* dropped beyond LogCapacity; line 290 raises before that on a malformed body
LogAfterKeepingMalformed(data) ==
    LET log == Append(smartrace_events_log, EventRecord(data))
    IN  IF Len(log) > LogCapacity THEN Tail(log) ELSE log
LogAfter(data) ==
    LET log == Append(smartrace_events_log, EventRecord(data))
    IN  IF ~data.json THEN smartrace_events_log
        ELSE IF Len(log) > LogCapacity THEN Tail(log) ELSE log

\* lines 317-357: where the handler goes with the request: into the start
\* delay, to the withdraw pulse, or to the response (500 from the except
\* clause when json.loads raised, 200 for an event of an unknown type)
DispatchUnknownAsWithdraw(req) ==
    IF ~req.post.json THEN Responded(500)
    ELSE IF IsStart(EventTypeOf(req.post))
    THEN [pc |-> "l329", ev |-> req, duration |-> DurationOf(req.post),
          delay |-> relay1_delay, wake |-> now + relay1_delay,
          idle |-> (~vsc_active /\ vsc_end_time = None)]
    ELSE [pc |-> "l341", ev |-> req]
Dispatch(req) ==
    IF ~req.post.json THEN Responded(500)
    ELSE IF IsStart(EventTypeOf(req.post))
    THEN [pc |-> "l329", ev |-> req, duration |-> DurationOf(req.post),
          delay |-> relay1_delay, wake |-> now + relay1_delay,
          idle |-> (~vsc_active /\ vsc_end_time = None)]
    ELSE IF IsWithdraw(EventTypeOf(req.post))
    THEN [pc |-> "l341", ev |-> req]
    ELSE Responded(200)

\* lines 281-329: parse the payload, record the event, classify it; a start
\* event then enters time.sleep(relay1_delay)
Ingest ==
    /\ h.pc = "idle"
    /\ backlog # <<>>
    /\ LET req == Head(backlog)
       IN  /\ backlog' = Tail(backlog)
           /\ (req.post.json /\ IsStart(EventTypeOf(req.post)))
                 => now + relay1_delay <= MaxTime
           /\ last_smartrace_event' =
                 IF req.post.json THEN EventRecord(req.post) ELSE last_smartrace_event
           /\ smartrace_events_log' = LogAfter(req.post)
           /\ h' = Dispatch(req)
    /\ UNCHANGED <<now, gpioVars, vscVars, cfgVars, m, nEvents, nWeb, histVars>>

\* StartPulse with a delay that a waiting withdraw event cancels
StartPulseCancelled ==
    /\ h.pc = "l329"
    /\ now >= h.wake
    /\ IF \E i \in 1..Len(backlog) : IsWithdraw(EventTypeOf(backlog[i].post))
         THEN h' = Responded(200) /\ UNCHANGED pulses
         ELSE /\ pulses' = pulse_relay_threaded(RELAY1_PIN)
              /\ h' = [h EXCEPT !.pc = "l333"]
    /\ UNCHANGED <<now, GPIO_AVAILABLE, gpio_out, relay1_state, relay2_state, vscVars,
                   logVars, cfgVars, backlog, m, nEvents, nWeb, histVars>>

\* lines 329-330: the sleep returns, pulse_relay_threaded(RELAY1_PIN, ...)
StartPulse ==
    /\ h.pc = "l329"
    /\ now >= h.wake
    /\ pulses' = pulse_relay_threaded(RELAY1_PIN)
    /\ h' = [h EXCEPT !.pc = "l333"]
    /\ UNCHANGED <<now, GPIO_AVAILABLE, gpio_out, relay1_state, relay2_state, vscVars,
                   logVars, cfgVars, backlog, m, nEvents, nWeb, histVars>>

\* line 333: vsc_active = True
SetActive ==
    /\ h.pc = "l333"
    /\ vsc_active' = TRUE
    /\ window' = [window EXCEPT !.open = h.ev.id]
    /\ h' = [h EXCEPT !.pc = "l334"]
    /\ UNCHANGED <<now, gpioVars, vsc_end_time, logVars, cfgVars, backlog, m, nEvents,
                   nWeb, endPulses, withdrawn>>

\* line 334: vsc_end_time = time.time() + duration; with a duration that is
\* no number the addition raises TypeError and the except clause answers 500
SetEndTime ==
    /\ h.pc = "l334"
    /\ IF h.duration = BadDuration
         THEN /\ h' = Responded(500)
              /\ UNCHANGED <<vsc_end_time, window>>
         ELSE /\ vsc_end_time' = now + h.duration
              /\ window' = [window EXCEPT !.deadline = h.ev.id]
              /\ h' = [h EXCEPT !.pc = "l336"]
    /\ UNCHANGED <<now, gpioVars, vsc_active, logVars, cfgVars, backlog, m, nEvents,
                   nWeb, endPulses, withdrawn>>

\* line 336: datetime.fromtimestamp(vsc_end_time) reads the global again;
\* with None it raises TypeError (500), else the 200 response
PrintEndTime ==
    /\ h.pc = "l336"
    /\ h' = IF vsc_end_time = None THEN Responded(500) ELSE Responded(200)
    /\ UNCHANGED <<now, gpioVars, vscVars, logVars, cfgVars, backlog, m, nEvents,
                   nWeb, histVars>>

\* the window a withdraw event finds open (0: none)
OpenWindow ==
    IF ~vsc_active THEN 0
    ELSE IF vsc_end_time # None THEN window.deadline ELSE window.open

\* line 341: pulse_relay_threaded(RELAY2_PIN, ...)
WithdrawPulse ==
    /\ h.pc = "l341"
    /\ pulses' = pulse_relay_threaded(RELAY2_PIN)
    /\ IF OpenWindow # 0
         THEN /\ endPulses' = [endPulses EXCEPT ![OpenWindow] = @ + 1]
              /\ withdrawn' = withdrawn \cup {OpenWindow}
         ELSE UNCHANGED <<endPulses, withdrawn>>
    /\ h' = [h EXCEPT !.pc = "l342"]
    /\ UNCHANGED <<now, GPIO_AVAILABLE, gpio_out, relay1_state, relay2_state, vscVars,
                   logVars, cfgVars, backlog, m, nEvents, nWeb, window>>

\* line 342: vsc_active = False
WithdrawClearActive ==
    /\ h.pc = "l342"
    /\ vsc_active' = FALSE
    /\ h' = [h EXCEPT !.pc = "l343"]
    /\ UNCHANGED <<now, gpioVars, vsc_end_time, logVars, cfgVars, backlog, m, nEvents,
                   nWeb, histVars>>

\* line 343: vsc_end_time = None, then the 200 response
WithdrawClearEndTime ==
    /\ h.pc = "l343"
    /\ vsc_end_time' = None
    /\ h' = Responded(200)
    /\ UNCHANGED <<now, gpioVars, vsc_active, logVars, cfgVars, backlog, m, nEvents,
                   nWeb, histVars>>

\* ---- monitor_vsc_timer ----
\* the monitor thread at a line of its loop; err: an iteration has raised
\* (history)
AtLine(pc) == [pc |-> pc, err |-> m.err]

\* line 143, left operand: vsc_active; False goes to time.sleep(0.1)
MonReadActive ==
    /\ m.pc = "l143"
    /\ m' = IF vsc_active THEN AtLine("l143b") ELSE AtLine("l143")
    /\ UNCHANGED <<now, gpioVars, vscVars, logVars, cfgVars, backlog, h, nEvents, nWeb, histVars>>

\* line 143, right operand: vsc_end_time is not None
MonReadEndTime ==
    /\ m.pc = "l143b"
    /\ m' = IF vsc_end_time # None THEN AtLine("l144") ELSE AtLine("l143")
    /\ UNCHANGED <<now, gpioVars, vscVars, logVars, cfgVars, backlog, h, nEvents, nWeb, histVars>>

\* line 144: current_time = time.time()
MonReadClock ==
    /\ m.pc = "l144"
    /\ m' = [pc |-> "l145", err |-> m.err, current_time |-> now]
    /\ UNCHANGED <<now, gpioVars, vscVars, logVars, cfgVars, backlog, h, nEvents, nWeb, histVars>>

\* line 145: current_time >= vsc_end_time; with vsc_end_time None the
\* comparison raises TypeError, caught at line 151, then time.sleep(1)
MonCompareEarly ==
    /\ m.pc = "l145"
    /\ m' = IF vsc_end_time = None THEN [pc |-> "l153", err |-> TRUE]
            ELSE IF m.current_time + 1 >= vsc_end_time
                 THEN [pc |-> "l147", err |-> m.err, win |-> window.deadline]
                 ELSE AtLine("l143")
    /\ UNCHANGED <<now, gpioVars, vscVars, logVars, cfgVars, backlog, h, nEvents, nWeb, histVars>>
MonCompareUnlessDelay ==
    /\ m.pc = "l145"
    /\ h.pc # "l329"
    /\ m' = IF vsc_end_time = None THEN [pc |-> "l153", err |-> TRUE]
            ELSE IF m.current_time >= vsc_end_time
                 THEN [pc |-> "l147", err |-> m.err, win |-> window.deadline]
                 ELSE AtLine("l143")
    /\ UNCHANGED <<now, gpioVars, vscVars, logVars, cfgVars, backlog, h, nEvents, nWeb, histVars>>
MonCompare ==
    /\ m.pc = "l145"
    /\ m' = IF vsc_end_time = None THEN [pc |-> "l153", err |-> TRUE]
            ELSE IF m.current_time >= vsc_end_time
                 THEN [pc |-> "l147", err |-> m.err, win |-> window.deadline]
                 ELSE AtLine("l143")
    /\ UNCHANGED <<now, gpioVars, vscVars, logVars, cfgVars, backlog, h, nEvents, nWeb, histVars>>

\* line 153: time.sleep(1) returns
MonExit ==
    /\ m.pc = "l153"
    /\ m' = AtLine("exited")
    /\ UNCHANGED <<now, gpioVars, vscVars, logVars, cfgVars, backlog, h, nEvents, nWeb, histVars>>
MonRecover ==
    /\ m.pc = "l153"
    /\ m' = AtLine("l143")
    /\ UNCHANGED <<now, gpioVars, vscVars, logVars, cfgVars, backlog, h, nEvents, nWeb, histVars>>

\* line 147: pulse_relay_threaded(RELAY2_PIN, ...)
MonPulse ==
    /\ m.pc = "l147"
    /\ pulses' = pulse_relay_threaded(RELAY2_PIN)
    /\ endPulses' = [endPulses EXCEPT ![m.win] = @ + 1]
    /\ m' = [m EXCEPT !.pc = "l148"]
    /\ UNCHANGED <<now, GPIO_AVAILABLE, gpio_out, relay1_state, relay2_state, vscVars,
                   logVars, cfgVars, backlog, h, nEvents, nWeb, window, withdrawn>>

\* line 148: vsc_active = False
MonClearActive ==
    /\ m.pc = "l148"
    /\ vsc_active' = FALSE
    /\ m' = [m EXCEPT !.pc = "l149"]
    /\ UNCHANGED <<now, gpioVars, vsc_end_time, logVars, cfgVars, backlog, h, nEvents,
                   nWeb, histVars>>

\* line 149: vsc_end_time = None, then time.sleep(0.1)
MonClearEndTime ==
    /\ m.pc = "l149"
    /\ vsc_end_time' = None
    /\ m' = AtLine("l143")
    /\ UNCHANGED <<now, gpioVars, vsc_active, logVars, cfgVars, backlog, h, nEvents,
                   nWeb, histVars>>

\* ---- pulse_relay, one thread ----
\* line 102 with GPIO_AVAILABLE False: the test-mode print, return True
PulseTestMode(p) ==
    /\ p.pc = "l102"
    /\ ~GPIO_AVAILABLE
    /\ pulses' = pulses (-) SetToBag({p})
    /\ UNCHANGED <<now, GPIO_AVAILABLE, gpio_out, relay1_state, relay2_state, vscVars,
                   logVars, cfgVars, backlog, h, m, nEvents, nWeb, histVars>>

\* line 105: GPIO.output(relay_pin, GPIO.HIGH)
PulseHigh(p) ==
    /\ p.pc = "l102"
    /\ GPIO_AVAILABLE
    /\ gpio_out' = [gpio_out EXCEPT ![p.pin] = TRUE]
    /\ pulses' = MovePulse(p, "l106")
    /\ UNCHANGED <<now, GPIO_AVAILABLE, relay1_state, relay2_state, vscVars,
                   logVars, cfgVars, backlog, h, m, nEvents, nWeb, histVars>>

\* lines 106-113: relayN_state = True, then into time.sleep(pulse_duration)
PulseStateOn(p) ==
    /\ p.pc = "l106"
    /\ IF p.pin = RELAY1_PIN
         THEN relay1_state' = TRUE /\ UNCHANGED relay2_state
         ELSE relay2_state' = TRUE /\ UNCHANGED relay1_state
    /\ pulses' = MovePulse(p, "l113")
    /\ UNCHANGED <<now, GPIO_AVAILABLE, gpio_out, vscVars,
                   logVars, cfgVars, backlog, h, m, nEvents, nWeb, histVars>>

\* lines 113-116: the sleep returns, GPIO.output(relay_pin, GPIO.LOW)
PulseLow(p) ==
    /\ p.pc = "l113"
    /\ gpio_out' = [gpio_out EXCEPT ![p.pin] = FALSE]
    /\ pulses' = MovePulse(p, "l117")
    /\ UNCHANGED <<now, GPIO_AVAILABLE, relay1_state, relay2_state, vscVars,
                   logVars, cfgVars, backlog, h, m, nEvents, nWeb, histVars>>

\* lines 117-123: relayN_state = False, return True
PulseReturnsEarly(p) ==
    /\ p.pc = "l117"
    /\ pulses' = pulses (-) SetToBag({p})
    /\ UNCHANGED <<now, GPIO_AVAILABLE, gpio_out, relay1_state, relay2_state, vscVars,
                   logVars, cfgVars, backlog, h, m, nEvents, nWeb, histVars>>
PulseStateOff(p) ==
    /\ p.pc = "l117"
    /\ IF p.pin = RELAY1_PIN
         THEN relay1_state' = FALSE /\ UNCHANGED relay2_state
         ELSE relay2_state' = FALSE /\ UNCHANGED relay1_state
    /\ pulses' = pulses (-) SetToBag({p})
    /\ UNCHANGED <<now, GPIO_AVAILABLE, gpio_out, vscVars,
                   logVars, cfgVars, backlog, h, m, nEvents, nWeb, histVars>>

pulse_relay ==
    \E p \in BagToSet(pulses) :
        \/ PulseTestMode(p)
        \/ PulseHigh(p)
        \/ PulseStateOn(p)
        \/ PulseLow(p)
        \/ PulseStateOff(p)

\* ---- WebHandler ----
\* do_GET /test1 and /test2
TestEndsWindow(relay_pin) ==
    /\ nWeb > 0
    /\ nWeb' = nWeb - 1
    /\ pulses' = pulse_relay_threaded(relay_pin)
    /\ vsc_active' = FALSE
    /\ UNCHANGED <<now, GPIO_AVAILABLE, gpio_out, relay1_state, relay2_state, vsc_end_time,
                   logVars, cfgVars, backlog, h, m, nEvents, histVars>>
Test(relay_pin) ==
    /\ nWeb > 0
    /\ nWeb' = nWeb - 1
    /\ pulses' = pulse_relay_threaded(relay_pin)
    /\ UNCHANGED <<now, GPIO_AVAILABLE, gpio_out, relay1_state, relay2_state, vscVars,
                   logVars, cfgVars, backlog, h, m, nEvents, histVars>>

Test1 == Test(RELAY1_PIN)
Test2 == Test(RELAY2_PIN)

\* lines 66-77: save_config writes both globals to CONFIG_FILE
save_config ==
    config_file' = [exists |-> TRUE, pulse_duration |-> pulse_duration',
                    relay1_delay |-> relay1_delay']

\* do_POST /set-pulse, lines 969-981: each value is taken when it is in its
\* range, save_config, and the redirect to '/' (status 302)
UpdateConfigUnchecked(new_duration, new_delay) ==
    /\ pulse_duration' = new_duration
    /\ relay1_delay' = new_delay
    /\ save_config
    /\ form' = [new_duration |-> new_duration, new_delay |-> new_delay,
                status |-> RedirectStatus]
UpdateConfigAllOrNothing(new_duration, new_delay) ==
    LET valid == /\ MinPulseDuration <= new_duration /\ new_duration <= MaxPulseDuration
                 /\ MinRelay1Delay <= new_delay /\ new_delay <= MaxRelay1Delay
    IN  /\ pulse_duration' = IF valid THEN new_duration ELSE pulse_duration
        /\ relay1_delay' = IF valid THEN new_delay ELSE relay1_delay
        /\ save_config
        /\ form' = [new_duration |-> new_duration, new_delay |-> new_delay,
                    status |-> RedirectStatus]
UpdateConfig(new_duration, new_delay) ==
    /\ pulse_duration' = IF MinPulseDuration <= new_duration /\ new_duration <= MaxPulseDuration
                           THEN new_duration ELSE pulse_duration
    /\ relay1_delay' = IF MinRelay1Delay <= new_delay /\ new_delay <= MaxRelay1Delay
                         THEN new_delay ELSE relay1_delay
    /\ save_config
    /\ form' = [new_duration |-> new_duration, new_delay |-> new_delay, status |-> RedirectStatus]

SetPulse ==
    /\ nWeb > 0
    /\ nWeb' = nWeb - 1
    /\ \E new_duration \in FormPulse, new_delay \in FormDelay :
          UpdateConfig(new_duration, new_delay)
    /\ UNCHANGED <<now, gpioVars, vscVars, logVars, backlog, h, m, nEvents, histVars>>

do_POST ==
    \/ Ingest
    \/ StartPulse
    \/ SetActive
    \/ SetEndTime
    \/ PrintEndTime
    \/ WithdrawPulse
    \/ WithdrawClearActive
    \/ WithdrawClearEndTime

monitor_vsc_timer ==
    \/ MonReadActive
    \/ MonReadEndTime
    \/ MonReadClock
    \/ MonCompare
    \/ MonRecover
    \/ MonPulse
    \/ MonClearActive
    \/ MonClearEndTime

Next ==
    \/ Tick
    \/ Arrive
    \/ do_POST
    \/ monitor_vsc_timer
    \/ pulse_relay
    \/ Test1
    \/ Test2
    \/ SetPulse

Spec == Init /\ [][Next]_vars

\* ---- the threads under fair scheduling ----
\* The state main() leaves, with the default relay1_delay or after a
\* /set-pulse request with relay1_delay=0; no web request follows.
FairInit ==
    /\ now = 0
    /\ GPIO_AVAILABLE \in BOOLEAN
    /\ gpio_out = [p \in Pins |-> FALSE]
    /\ relay1_state = FALSE
    /\ relay2_state = FALSE
    /\ vsc_active = FALSE
    /\ vsc_end_time = None
    /\ last_smartrace_event = NoEvent
    /\ smartrace_events_log = <<>>
    /\ pulse_duration = DefaultPulseDuration
    /\ \/ /\ relay1_delay = DefaultRelay1Delay
          /\ config_file = NoFile
          /\ form = NoForm
       \/ /\ relay1_delay = 0
          /\ config_file = [exists |-> TRUE, pulse_duration |-> DefaultPulseDuration,
                            relay1_delay |-> 0]
          /\ form = [new_duration |-> DefaultPulseDuration, new_delay |-> 0, status |-> RedirectStatus]
    /\ backlog = <<>>
    /\ h = HIdle
    /\ m = MIdle
    /\ pulses = EmptyBag
    /\ nEvents = MaxEvents
    /\ nWeb = 0
    /\ window = [open |-> 0, deadline |-> 0]
    /\ endPulses = [e \in EventIds |-> 0]
    /\ withdrawn = {}

FairNext ==
    \/ Tick
    \/ Arrive
    \/ do_POST
    \/ monitor_vsc_timer
    \/ pulse_relay

\* The threads are scheduled by the operating system and the clock runs: the
\* handler thread, the monitor thread, the pulse threads and the clock each
\* take a step that stays possible.
FairSpec ==
    /\ FairInit
    /\ [][FairNext]_vars
    /\ WF_vars(Tick)
    /\ WF_vars(do_POST)
    /\ WF_vars(monitor_vsc_timer)
    /\ WF_vars(pulse_relay)

\* ---- suspended threads ----
\* The state after a /set-pulse request with relay1_delay=2; only the clock
\* and the monitor are scheduled fairly: the handler and the pulse threads
\* may stay in their sleeps for any time.
SuspendDelay == 2

SuspendInit ==
    /\ now = 0
    /\ GPIO_AVAILABLE \in BOOLEAN
    /\ gpio_out = [p \in Pins |-> FALSE]
    /\ relay1_state = FALSE
    /\ relay2_state = FALSE
    /\ vsc_active = FALSE
    /\ vsc_end_time = None
    /\ last_smartrace_event = NoEvent
    /\ smartrace_events_log = <<>>
    /\ pulse_duration = DefaultPulseDuration
    /\ relay1_delay = SuspendDelay
    /\ config_file = [exists |-> TRUE, pulse_duration |-> DefaultPulseDuration,
                      relay1_delay |-> SuspendDelay]
    /\ form = [new_duration |-> DefaultPulseDuration, new_delay |-> SuspendDelay,
               status |-> RedirectStatus]
    /\ backlog = <<>>
    /\ h = HIdle
    /\ m = MIdle
    /\ pulses = EmptyBag
    /\ nEvents = MaxEvents
    /\ nWeb = 0
    /\ window = [open |-> 0, deadline |-> 0]
    /\ endPulses = [e \in EventIds |-> 0]
    /\ withdrawn = {}

SuspendSpec ==
    /\ SuspendInit
    /\ [][FairNext]_vars
    /\ WF_vars(Tick)
    /\ WF_vars(monitor_vsc_timer)

\* ---- payloads of every shape ----
\* An event of the usual kind, then one request body of any shape; the pulse
\* threads are started but not followed.
ArriveFirst == nEvents > 1 /\ Post(CorePayloads)
ArriveLast == nEvents = 1 /\ Post(AllPayloads)

InputNext ==
    \/ Tick
    \/ ArriveFirst
    \/ ArriveLast
    \/ do_POST
    \/ monitor_vsc_timer

InputSpec == FairInit /\ [][InputNext]_vars

\* ---- the configuration ----
\* the form values of /set-pulse, inside, at the ends of and outside their
\* ranges
CfgPulse == {0, 1, 5, 25, 50, 51, 100}
CfgDelay == {-1, 0, 5, 12, 30, 31}

SetPulseAny ==
    /\ nWeb > 0
    /\ nWeb' = nWeb - 1
    /\ \E new_duration \in CfgPulse, new_delay \in CfgDelay :
          UpdateConfig(new_duration, new_delay)
    /\ UNCHANGED <<now, gpioVars, vscVars, logVars, backlog, h, m, nEvents, histVars>>

\* lines 52-64: load_config declares only pulse_duration global; its
\* relay1_delay is a local variable, so the global keeps the 5.0 of line 50
load_config ==
    /\ pulse_duration' = IF config_file.exists THEN config_file.pulse_duration
                           ELSE DefaultPulseDuration
    /\ relay1_delay' = DefaultRelay1Delay

\* the process is stopped and started again: the module globals of lines
\* 39-50, then main() with load_config; CONFIG_FILE stays as it is
Restart ==
    /\ load_config
    /\ gpio_out' = [p \in Pins |-> FALSE]
    /\ relay1_state' = FALSE
    /\ relay2_state' = FALSE
    /\ vsc_active' = FALSE
    /\ vsc_end_time' = None
    /\ last_smartrace_event' = NoEvent
    /\ smartrace_events_log' = <<>>
    /\ backlog' = <<>>
    /\ h' = HIdle
    /\ m' = MIdle
    /\ pulses' = EmptyBag
    /\ UNCHANGED <<now, GPIO_AVAILABLE, config_file, form, nEvents, nWeb, histVars>>

CfgInit ==
    /\ now = 0
    /\ GPIO_AVAILABLE \in BOOLEAN
    /\ gpio_out = [p \in Pins |-> FALSE]
    /\ relay1_state = FALSE
    /\ relay2_state = FALSE
    /\ vsc_active = FALSE
    /\ vsc_end_time = None
    /\ last_smartrace_event = NoEvent
    /\ smartrace_events_log = <<>>
    /\ pulse_duration = DefaultPulseDuration
    /\ relay1_delay = DefaultRelay1Delay
    /\ config_file = NoFile
    /\ form = NoForm
    /\ backlog = <<>>
    /\ h = HIdle
    /\ m = MIdle
    /\ pulses = EmptyBag
    /\ nEvents = 0
    /\ nWeb = CfgRequests
    /\ window = [open |-> 0, deadline |-> 0]
    /\ endPulses = [e \in EventIds |-> 0]
    /\ withdrawn = {}

CfgNext ==
    \/ SetPulseAny
    \/ Restart

CfgSpec == CfgInit /\ [][CfgNext]_vars

\* ---- the event log on a long run ----
\* events of an unknown type whose data tells them apart
ArriveNumbered == Post({Payload("foo", "", Absent, WithDuration(nEvents))})

\* lines 281-309: parse the payload, record the event, append it to the log
IngestAppend ==
    /\ h.pc = "idle"
    /\ backlog # <<>>
    /\ LET req == Head(backlog)
       IN  /\ backlog' = Tail(backlog)
           /\ IF ~req.post.json
                THEN /\ h' = Responded(500)
                     /\ UNCHANGED logVars
                ELSE /\ last_smartrace_event' = EventRecord(req.post)
                     /\ smartrace_events_log' =
                           Append(smartrace_events_log, EventRecord(req.post))
                     /\ h' = [pc |-> "l310", ev |-> req]
    /\ UNCHANGED <<now, gpioVars, vscVars, cfgVars, m, nEvents, nWeb, histVars>>

\* lines 310-329: drop the oldest record beyond LogCapacity, classify the event
IngestTrim ==
    /\ h.pc = "l310"
    /\ smartrace_events_log' = IF Len(smartrace_events_log) > LogCapacity
                                 THEN Tail(smartrace_events_log)
                                 ELSE smartrace_events_log
    /\ IsStart(EventTypeOf(h.ev.post)) => now + relay1_delay <= MaxTime
    /\ h' = Dispatch(h.ev)
    /\ UNCHANGED <<now, gpioVars, vscVars, last_smartrace_event, cfgVars, backlog, m,
                   nEvents, nWeb, histVars>>

LogInit ==
    /\ now = 0
    /\ GPIO_AVAILABLE \in BOOLEAN
    /\ gpio_out = [p \in Pins |-> FALSE]
    /\ relay1_state = FALSE
    /\ relay2_state = FALSE
    /\ vsc_active = FALSE
    /\ vsc_end_time = None
    /\ last_smartrace_event = NoEvent
    /\ smartrace_events_log = <<>>
    /\ pulse_duration = DefaultPulseDuration
    /\ relay1_delay = DefaultRelay1Delay
    /\ config_file = NoFile
    /\ form = NoForm
    /\ backlog = <<>>
    /\ h = HIdle
    /\ m = MIdle
    /\ pulses = EmptyBag
    /\ nEvents = LogEvents
    /\ nWeb = 0
    /\ window = [open |-> 0, deadline |-> 0]
    /\ endPulses = [e \in EventIds |-> 0]
    /\ withdrawn = {}

LogNext ==
    \/ ArriveNumbered
    \/ IngestAppend
    \/ IngestTrim

LogSpec == LogInit /\ [][LogNext]_vars

\* ---- a driver that fails ----
\* line 105 raises: whether the pin was driven before the failure is the
\* driver's; the except clause (lines 124-126) prints and returns False
PulseHighFails(p) ==
    /\ p.pc = "l102"
    /\ GPIO_AVAILABLE
    /\ \E level \in {gpio_out[p.pin], TRUE} :
          gpio_out' = [gpio_out EXCEPT ![p.pin] = level]
    /\ pulses' = MovePulse(p, "False105")
    /\ UNCHANGED <<now, GPIO_AVAILABLE, relay1_state, relay2_state, vscVars,
                   logVars, cfgVars, backlog, h, m, nEvents, nWeb, histVars>>

\* line 116 raises: relayN_state stays True, the except clause returns False
PulseLowFails(p) ==
    /\ p.pc = "l113"
    /\ \E level \in {gpio_out[p.pin], FALSE} :
          gpio_out' = [gpio_out EXCEPT ![p.pin] = level]
    /\ pulses' = MovePulse(p, "False116")
    /\ UNCHANGED <<now, GPIO_AVAILABLE, relay1_state, relay2_state, vscVars,
                   logVars, cfgVars, backlog, h, m, nEvents, nWeb, histVars>>

pulse_relay_raises ==
    \E p \in BagToSet(pulses) :
        \/ PulseHighFails(p)
        \/ PulseLowFails(p)

DriverInit ==
    /\ now = 0
    /\ GPIO_AVAILABLE \in BOOLEAN
    /\ gpio_out = [p \in Pins |-> FALSE]
    /\ relay1_state = FALSE
    /\ relay2_state = FALSE
    /\ vsc_active = FALSE
    /\ vsc_end_time = None
    /\ last_smartrace_event = NoEvent
    /\ smartrace_events_log = <<>>
    /\ pulse_duration = DefaultPulseDuration
    /\ relay1_delay = DefaultRelay1Delay
    /\ config_file = NoFile
    /\ form = NoForm
    /\ backlog = <<>>
    /\ h = HIdle
    /\ m = MIdle
    /\ pulses = EmptyBag
    /\ nEvents = 0
    /\ nWeb = DriverTests
    /\ window = [open |-> 0, deadline |-> 0]
    /\ endPulses = [e \in EventIds |-> 0]
    /\ withdrawn = {}

DriverNext ==
    \/ Test1
    \/ Test2
    \/ pulse_relay
    \/ pulse_relay_raises

DriverSpec == DriverInit /\ [][DriverNext]_vars

\* ---- the data handler and the monitor alone ----
\* The state after a /set-pulse request with relay1_delay=0 (pulse_duration
\* unchanged) and before any event: three events then arrive.  Pulse threads
\* are started and not followed further.
RaceInit ==
    /\ now = 0
    /\ GPIO_AVAILABLE \in BOOLEAN
    /\ gpio_out = [p \in Pins |-> FALSE]
    /\ relay1_state = FALSE
    /\ relay2_state = FALSE
    /\ vsc_active = FALSE
    /\ vsc_end_time = None
    /\ last_smartrace_event = NoEvent
    /\ smartrace_events_log = <<>>
    /\ pulse_duration = DefaultPulseDuration
    /\ relay1_delay = 0
    /\ config_file = [exists |-> TRUE, pulse_duration |-> DefaultPulseDuration, relay1_delay |-> 0]
    /\ form = [new_duration |-> DefaultPulseDuration, new_delay |-> 0, status |-> RedirectStatus]
    /\ backlog = <<>>
    /\ h = HIdle
    /\ m = MIdle
    /\ pulses = EmptyBag
    /\ nEvents = RaceEvents
    /\ nWeb = 0
    /\ window = [open |-> 0, deadline |-> 0]
    /\ endPulses = [e \in EventIds |-> 0]
    /\ withdrawn = {}

RaceNext ==
    \/ Tick
    \/ Arrive
    \/ do_POST
    \/ monitor_vsc_timer

RaceSpec == RaceInit /\ [][RaceNext]_vars

\* the same under fair scheduling of the clock, the handler and the
\* monitor, with start events of one second and withdraw events only
VscPayloads ==
    { Payload("vsc_deployed", "", Absent, WithDuration(1)),
      Payload("vsc_withdrawn", "", Absent, Absent) }
ArriveVsc == Post(VscPayloads)

MonitorNext ==
    \/ Tick
    \/ ArriveVsc
    \/ do_POST
    \/ monitor_vsc_timer

MonitorSpec ==
    /\ RaceInit
    /\ [][MonitorNext]_vars
    /\ WF_vars(Tick)
    /\ WF_vars(do_POST)
    /\ WF_vars(monitor_vsc_timer)

\* ---- steps of the threads, as the claims name them ----
\* the handler fires the start pulse (line 330)
FiresStartPulse == h.pc = "l329" /\ h'.pc = "l333"
\* the handler has opened the window of a start event (line 334 done)
CompletesStart == h.pc = "l334" /\ h'.pc = "l336"
\* the handler fires the end pulse for a withdraw event (line 341)
FiresWithdrawPulse == h.pc = "l341" /\ h'.pc = "l342"
\* the handler completes a withdraw event (line 343 done)
CompletesWithdraw == h.pc = "l343" /\ h'.pc = "idle"
\* the monitor fires the end pulse (line 147)
FiresMonitorPulse == m.pc = "l147" /\ m'.pc = "l148"
\* the handler is inside time.sleep(relay1_delay) and the delay has not elapsed
InStartDelay == h.pc = "l329" /\ now < h.wake
\* pulse threads of a pin between their "on" and their "off" action
InFlight(pin) ==
    CopiesIn([pin |-> pin, pc |-> "l106"], pulses) + CopiesIn([pin |-> pin, pc |-> "l113"], pulses)
\* a withdraw event waits in the backlog that arrived before the delay of the
\* start event in progress had elapsed
WithdrawWaiting ==
    \E i \in 1..Len(backlog) : IsWithdraw(EventTypeOf(backlog[i].post)) /\ backlog[i].arr < h.wake

\* C1: every window gets exactly one end pulse: the monitor and the withdraw
\* path together never fire more than one end pulse on account of the same
\* window.
C1_OneEndPulsePerWindow == \A w \in EventIds : endPulses[w] <= 1

\* C2: on each output at most one pulse executes at a time: no two pulse
\* threads of the same pin are both between their "on" and their "off".
C2_OnePulseAtATime == \A pin \in Pins : InFlight(pin) <= 1

\* C3: in every state any thread can observe, the deadline is set if and
\* only if the window is active.
C3_DeadlineIffActive == (vsc_end_time # None) <=> vsc_active

\* C4: a withdraw event leaves the window cleared (not active, no deadline)
\* when its handling completes, and the monitor fires no end pulse for a
\* window after a withdraw event has fired for it.
C4_WithdrawClearsAndFiresOnce ==
    [][ /\ (CompletesWithdraw => (~vsc_active' /\ vsc_end_time' = None))
        /\ (FiresMonitorPulse => m.win \notin withdrawn) ]_vars

\* C5: a withdraw event processed while no window is open fires no end
\* pulse: the handler fires the end pulse only with the window active.
C5_NoEndPulseWithoutWindow == [][FiresWithdrawPulse => vsc_active]_vars

\* C6: the start-delay wait blocks only its own event: while the handler is
\* inside the delay and an event waits, that event can be ingested.
C6_DelayDoesNotBlockIngestion ==
    (InStartDelay /\ backlog # <<>>) => ENABLED Ingest

\* C7: a withdraw event that arrives before the start delay has elapsed has
\* its end pulse fired before the start pulse of the pending start event:
\* when the start pulse fires, no such withdraw event is still waiting.
C7_EndPulseBeforeStartPulse == [][FiresStartPulse => ~WithdrawWaiting]_vars

\* C8: once a start event is in its start-delay wait, its start pulse
\* eventually fires, whatever arrives afterwards.
C8_StartPulseEventuallyFires == (h.pc = "l329") ~> (h.pc = "l333")
\* C8 witness: the start pulse has fired although a withdraw event arrived
\* during the delay
C8_Witness == h.pc = "l333" /\ WithdrawWaiting

\* C9: for a start event accepted in Idle the window is not active before
\* the start pulse of that event has fired, and it is active when the
\* handling of the event completes.
C9_PulseThenWindow ==
    [][ /\ ((h.pc = "l329" /\ h.idle) => ~vsc_active)
        /\ ((CompletesStart /\ h.idle) => vsc_active') ]_vars

\* C10: the deadline of the window a start event opens is receipt time +
\* startDelay + duration, and the monitor fires the end pulse only at or
\* after the deadline.
C10_Deadline ==
    [][ /\ (CompletesStart => vsc_end_time' = h.ev.arr + h.delay + h.duration)
        /\ (FiresMonitorPulse => (vsc_end_time = None \/ now >= vsc_end_time)) ]_vars

\* ---- natural expiry ----
\* a start event has opened a window whose deadline the clock reaches
WindowOpened == vsc_end_time # None /\ vsc_end_time <= MaxTime
\* the monitor has fired the end pulse of the window that owns the deadline
\* and is about to clear it
MonitorFired == m.pc \in {"l148", "l149"} /\ m.win = window.deadline
\* the window is cleared
WindowCleared == ~vsc_active /\ vsc_end_time = None
\* a withdraw event is being processed, or a later start event has moved
\* the deadline beyond the clock's range
WithdrawnOrMoved ==
    \/ h.pc \in {"l341", "l342", "l343"}
    \/ (vsc_end_time # None /\ vsc_end_time > MaxTime)

\* C11: under weak fairness of the monitor loop, whenever a start event has
\* opened a window and no withdraw event is processed afterwards, the
\* monitor eventually fires the end pulse of that window and the window
\* eventually becomes cleared.
C11_NaturalExpiry ==
    /\ WindowOpened ~> (MonitorFired \/ WithdrawnOrMoved)
    /\ WindowOpened ~> (WindowCleared \/ WithdrawnOrMoved)

\* ---- re-arming ----
\* the event in the handler and the event handled before it are both start
\* events: no withdraw event was handled between them
TwoStarts ==
    /\ Len(smartrace_events_log) >= 2
    /\ IsStart(smartrace_events_log[Len(smartrace_events_log)].type)
    /\ IsStart(smartrace_events_log[Len(smartrace_events_log) - 1].type)

\* C12: two start events with no withdraw event between them each fire
\* their start pulse, and when the later one has been handled one window is
\* open: it is active and its deadline is the one computed for the later
\* event.
C12_ReArmSupersedes ==
    [][ (CompletesStart /\ TwoStarts) =>
          (vsc_active' /\ vsc_end_time' = now + h.duration /\ window'.deadline = h.ev.id) ]_vars

\* ---- requests without effect ----
\* the handler takes the next request from the port
TakesRequest == h.pc = "idle" /\ backlog # <<>> /\ backlog' = Tail(backlog)
\* the type of a body is in neither alias set (absent and empty included)
UnknownType(post) ==
    post.json /\ ~IsStart(EventTypeOf(post)) /\ ~IsWithdraw(EventTypeOf(post))

\* C13: an event whose type is in neither alias set, an absent or empty
\* type included, fires no pulse and leaves the active flag, the deadline,
\* the outputs and the configuration unchanged; its only effect is that it
\* is appended to the event log and becomes the last-event record, and the
\* handler answers 200 and is ready for the next request.
C13_UnknownEventIsInert ==
    [][ (TakesRequest /\ UnknownType(Head(backlog).post)) =>
          /\ UNCHANGED <<gpioVars, vscVars, cfgVars, histVars>>
          /\ last_smartrace_event' = EventRecord(Head(backlog).post)
          /\ smartrace_events_log' =
                Append(smartrace_events_log, EventRecord(Head(backlog).post))
          /\ h' = Responded(200) ]_vars
\* C13 witness: an event without a type has been handled while a window was
\* open
C13_Witness ==
    /\ last_smartrace_event # NoEvent
    /\ last_smartrace_event.type = ""
    /\ h = Responded(200)
    /\ vsc_active /\ vsc_end_time # None

\* C14: a body that is not JSON is answered with an error response (500)
\* and changes nothing: event log, last-event record, active flag,
\* deadline, outputs and configuration are as before, and no pulse fires.
C14_MalformedIsRejected ==
    [][ (TakesRequest /\ ~Head(backlog).post.json) =>
          /\ UNCHANGED <<gpioVars, vscVars, logVars, cfgVars, histVars>>
          /\ h' = Responded(500) ]_vars
\* C14 witness: a malformed body has been answered while a window was open
\* and an earlier event was on record
C14_Witness ==
    /\ h = Responded(500)
    /\ nEvents = 0 /\ backlog = <<>>
    /\ last_smartrace_event # NoEvent
    /\ Len(smartrace_events_log) = 1
    /\ vsc_active /\ vsc_end_time # None

\* ---- the exception path and the duration ----
\* the handling of a request ends in the except clause (500)
Raises == h' = Responded(500) /\ (h.pc # "idle" \/ TakesRequest)
\* the start pulse of the event in the handler has fired
StartPulseFired == h.pc \in {"l333", "l334", "l336"}

\* C15: when the handling of an event ends in the exception path, no partial
\* state is left: no pulse has fired for that event, and the active flag is
\* not set without a matching deadline.
C15_NoPartialState ==
    [][ Raises => (~StartPulseFired /\ (vsc_active' <=> vsc_end_time' # None)) ]_vars

\* the code finds no number as the duration of a start event: the field is
\* absent or holds a string or null
NoUsableDuration ==
    VscDataOf(h.ev.post).k # "dur" \/ VscDataOf(h.ev.post).v = BadDuration
\* the handler leaves line 334
LeavesSetEndTime == h.pc = "l334" /\ h'.pc # "l334"

\* C16: for every start event whose duration is absent or is no number the
\* window is opened with the default of 60 seconds: its deadline is the
\* opening time + 60.
C16_DefaultDuration ==
    [][ (LeavesSetEndTime /\ NoUsableDuration) =>
          vsc_end_time' = now + DefaultDuration ]_vars

\* the duration present at event.data.duration or at data.duration, 60 when
\* neither carries one
DurationAtEitherPlace(post) ==
    IF post.edata.k = "dur" THEN post.edata.v
    ELSE IF post.data.k = "dur" THEN post.data.v
    ELSE DefaultDuration

\* C17: the duration used for a start event is the one present at
\* event.data.duration or at data.duration, whichever carries it, and 60
\* only when neither does.
C17_DurationAtEitherPlace ==
    [][ (TakesRequest /\ Head(backlog).post.json
           /\ IsStart(EventTypeOf(Head(backlog).post))) =>
          h'.duration = DurationAtEitherPlace(Head(backlog).post) ]_vars

\* ---- the configuration ----
\* a /set-pulse request is handled (the test requests start a pulse thread)
SubmitsForm == nWeb' < nWeb /\ pulses' = pulses
\* the process restarts: the only step that leaves the request budget alone
\* where no event, clock or thread step is taken
Restarts == nWeb' = nWeb
PulseInRange(d) == MinPulseDuration <= d /\ d <= MaxPulseDuration
DelayInRange(d) == MinRelay1Delay <= d /\ d <= MaxRelay1Delay

\* C18: in every state reached from the defaults by configuration updates
\* pulse_duration is within [0.1, 5.0] s and relay1_delay within [0, 30] s,
\* and an update with an out-of-range value for a field leaves that field's
\* prior value.
C18_ConfigInBounds ==
    /\ [](PulseInRange(pulse_duration) /\ DelayInRange(relay1_delay))
    /\ [][ SubmitsForm =>
             /\ (~PulseInRange(form'.new_duration) => pulse_duration' = pulse_duration)
             /\ (~DelayInRange(form'.new_delay) => relay1_delay' = relay1_delay) ]_vars
\* C18 witness: an update with pulse_duration = 10 s has left the 2.5 s set
\* before
C18_Witness ==
    /\ form.new_duration = 100
    /\ pulse_duration = 25
    /\ relay1_delay = 12

\* C19: an out-of-bounds update is reported to the caller as not accepted:
\* the response to it differs from the response to an accepted update.
C19_RejectionReported ==
    (form # NoForm /\ ~(PulseInRange(form.new_duration) /\ DelayInRange(form.new_delay)))
      => form.status # RedirectStatus

\* C20: persistence round-trips: after an update saved the (in-bounds)
\* pulse_duration and relay1_delay, loading the configuration at startup
\* yields the same two values.
C20_ConfigRoundTrip ==
    [][ (Restarts /\ config_file.exists) =>
          /\ pulse_duration' = config_file.pulse_duration
          /\ relay1_delay' = config_file.relay1_delay ]_vars

\* ---- the event log ----
\* the events handled so far, and the record of the i-th event of a long run
Handled == LogEvents - nEvents - Len(backlog) - (IF h.pc = "l310" THEN 1 ELSE 0)
NumberedRecord(i) ==
    EventRecord(Payload("foo", "", Absent, WithDuration(LogEvents - i + 1)))
\* the most recent min(n, 100) records of n events, in arrival order
MostRecent(n) ==
    LET first == IF n > LogCapacity THEN n - LogCapacity + 1 ELSE 1
    IN  [k \in 1..(n - first + 1) |-> NumberedRecord(first + k - 1)]

\* C21: the event log is a bounded ring of capacity 100: in every state
\* another thread can observe its length is at most 100, and after n
\* ingested events it holds the most recent min(n, 100) records in arrival
\* order.
C21_LogIsBoundedRing ==
    /\ Len(smartrace_events_log) <= LogCapacity
    /\ (h.pc = "idle" => smartrace_events_log = MostRecent(Handled))

\* ---- a failing driver ----
\* a pulse on the pin returns False after its "on" action (line 105) raised
ReturnsFailedOn(pin) ==
    CopiesIn([pin |-> pin, pc |-> "False105"], pulses')
      > CopiesIn([pin |-> pin, pc |-> "False105"], pulses)

\* C22: when the driver fails during the "on" action of a pulse, the pulse
\* still attempts the "off" action on that output before it reports the
\* failure as its outcome: when the pulse returns, the output is
\* de-energized.
C22_OffAfterFailedOn ==
    [][ \A pin \in Pins : ReturnsFailedOn(pin) => ~gpio_out'[pin] ]_vars

\* ---- the monitor loop ----
\* a window is open and its deadline has passed
OpenAndExpired == vsc_active /\ vsc_end_time # None /\ now >= vsc_end_time
\* the monitor handles the expiry, or the handler has cleared or re-armed
\* the window
HandledOrGone ==
    \/ m.pc \in {"l147", "l148", "l149"}
    \/ ~vsc_active
    \/ vsc_end_time = None
    \/ now < vsc_end_time

\* C23: the monitor loop never exits: after an iteration that raised (the
\* comparison of line 145 with a deadline a withdraw event has just
\* cleared) the monitor polls again, and a window that is open and expired
\* afterwards is still handled.
C23_MonitorNeverExits ==
    /\ (m.pc = "l153") ~> (m.pc = "l143")
    /\ (m.err /\ OpenAndExpired) ~> HandledOrGone
\* C23 witness: after an iteration that raised, the monitor has fired the
\* end pulse of a window opened later
C23_Witness == m.err /\ m.pc = "l148"

\* ---- suspensions ----
\* the handler is inside its start delay, or a pulse thread is inside
\* time.sleep(pulse_duration)
Suspended ==
    \/ InStartDelay
    \/ \E pin \in Pins : CopiesIn([pin |-> pin, pc |-> "l113"], pulses) > 0

\* C24: the monitor is never blocked by a suspension in another activity:
\* while a start event is inside its start delay or a pulse is inside its
\* duration wait, the monitor still polls and fires the end pulse of an
\* open window whose deadline has passed, however long the wait lasts.
C24_MonitorNotBlocked == (Suspended /\ OpenAndExpired) ~> HandledOrGone
\* C24 witness: the monitor has fired the end pulse of the first event's
\* window while the second start event is inside its delay
C24_Witness ==
    /\ InStartDelay
    /\ h.ev.id = 1
    /\ m.pc = "l148"
    /\ m.win = MaxEvents

\* ---- opening and clearing ----
\* the last event handled is a start event that opened its window, and the
\* handler and the monitor are between two rounds
StartHandledAtRest ==
    /\ h = Responded(200)
    /\ backlog = <<>>
    /\ IsStart(last_smartrace_event.type)
    /\ m.pc = "l143"

\* C25: opening and clearing the window are linearizable: when the
\* monitor's handling of an expired window interleaves with a start event
\* that re-arms the window, the new window ends up fully open (active, with
\* its deadline), or it was cleared after an end pulse fired on its own
\* account; the monitor's clear of the old window never erases or
\* half-erases the new one.
C25_OpenClearLinearizable ==
    StartHandledAtRest =>
        \/ (vsc_active /\ vsc_end_time # None)
        \/ endPulses[window.deadline] >= 1

\* ---- outputs at rest ----
\* every pulse_relay call started on the pin has returned
AllReturned(pin) ==
    \A pc \in {"l102", "l106", "l113", "l117"} :
        CopiesIn([pin |-> pin, pc |-> pc], pulses) = 0
\* no GPIO.output call on the pin has raised
DriverSound(pin) ==
    \A pc \in {"False105", "False116"} :
        CopiesIn([pin |-> pin, pc |-> pc], pulses) = 0
RelayState(pin) == IF pin = RELAY1_PIN THEN relay1_state ELSE relay2_state

\* C26: whenever no pulse is in flight on an output and the driver has not
\* failed on it, the output's energized flag is false and the last action on
\* its pin was "off", for any number and interleaving of overlapping pulses.
C26_OutputsAtRest ==
    \A pin \in Pins :
        (AllReturned(pin) /\ DriverSound(pin)) => (~RelayState(pin) /\ ~gpio_out[pin])
\* C26 witness: three test pulses have run on the GPIO and returned
C26_Witness ==
    /\ GPIO_AVAILABLE
    /\ nWeb = 0
    /\ pulses = EmptyBag

\* ---- what a tick of the monitor has observed ----
\* the monitor thread arrives at a line
MonEnters(pc) == m'.pc = pc /\ m.pc # pc

\* C27: the monitor never fires an end pulse for a window that is not open
\* or whose deadline has not passed: every end pulse it fires happens in a
\* tick that observed the window active (line 143), with a deadline (line
\* 143) and with the current time it read (line 144) at or after the
\* deadline (line 145).
C27_MonitorFiresOnObservedExpiry ==
    [][ /\ (MonEnters("l143b") => (m.pc = "l143" /\ vsc_active))
        /\ (MonEnters("l144") => (m.pc = "l143b" /\ vsc_end_time # None))
        /\ (MonEnters("l145") => (m.pc = "l144" /\ m'.current_time = now))
        /\ (MonEnters("l147") =>
              (m.pc = "l145" /\ vsc_end_time # None /\ m.current_time >= vsc_end_time))
        /\ ((m' # m /\ pulses' # pulses) => FiresMonitorPulse) ]_vars
\* C27 witness: the monitor has fired the end pulse of an open, expired window
C27_Witness ==
    /\ m.pc = "l148"
    /\ vsc_active
    /\ vsc_end_time # None /\ now >= vsc_end_time
    /\ window.deadline = m.win

\* ---- frames ----
\* a request to the web server (/test1, /test2, /set-pulse) is handled
WebRequest == nWeb' < nWeb
\* the data handler or the monitor takes a step
HandlerOrMonitorStep == h' # h \/ m' # m

\* C28: the test pulses and the configuration updates leave the window
\* (active flag and deadline) and the event log unchanged, and the data
\* handler and the monitor never change pulse_duration or relay1_delay.
C28_Frames ==
    [][ /\ (WebRequest => UNCHANGED <<vscVars, logVars>>)
        /\ (HandlerOrMonitorStep => UNCHANGED <<pulse_duration, relay1_delay>>) ]_vars
\* C28 witness: a web request has been handled with a window open and an
\* event on record, while the handler is busy with a further event
C28_Witness ==
    /\ nWeb = 0
    /\ vsc_active /\ vsc_end_time # None
    /\ Len(smartrace_events_log) = 2
    /\ h.pc # "idle"

\* C29: a configuration update validates its two fields independently: for
\* every submitted pair (d, s), pulse_duration becomes d iff 0.1 <= d <= 5
\* and is otherwise unchanged, and relay1_delay becomes s iff 0 <= s <= 30
\* and is otherwise unchanged, whatever the other field is.
C29_FieldsValidatedIndependently ==
    [][ SubmitsForm =>
          /\ (pulse_duration' = form'.new_duration) <=> PulseInRange(form'.new_duration)
          /\ pulse_duration' =
                IF PulseInRange(form'.new_duration) THEN form'.new_duration ELSE pulse_duration
          /\ (relay1_delay' = form'.new_delay) <=> DelayInRange(form'.new_delay)
          /\ relay1_delay' =
                IF DelayInRange(form'.new_delay) THEN form'.new_delay ELSE relay1_delay ]_vars
\* C29 witness: the first update, (10 s, 12 s) on the defaults (0.5 s, 5 s),
\* has changed relay1_delay and left pulse_duration
C29_Witness ==
    /\ nWeb = CfgRequests - 1
    /\ form.new_duration = 100 /\ form.new_delay = 12
    /\ pulse_duration = DefaultPulseDuration
    /\ relay1_delay = 12
    /\ config_file.exists /\ config_file.relay1_delay = 12

====
